---- MODULE Spec2Model ----
(***************************************************************************)
(* Environment Name Builder (src/node.v22/index.js): the evaluator made by *)
(* createEnvironmentNameBuilder, its accumulated context, and evaluate().  *)
(***************************************************************************)
EXTENDS Naturals, Sequences, FiniteSets, TLC

VARIABLES
    args,          \* the arguments of the createEnvironmentNameBuilder call
    built,         \* "none" before the call, "ok" once it returned, "failed" once it threw
    conditions,    \* the evaluator's conditions property
    defaultValue,  \* the evaluator's defaultValue property
    _context,      \* the evaluator's accumulated context
    procEnv,       \* process.env: variable name -> value
    result,        \* what the most recent call did: its argument and its outcome
    self,          \* which of two evaluators the fields above belong to
    parked         \* built and _context of the other evaluator

vars == <<args, built, conditions, defaultValue, _context, procEnv, result,
          self, parked>>

---------------------------------------------------------------------------
(* Bounds of the model *)

\* longest conditions array handed to the constructor
MaxConds == 2

---------------------------------------------------------------------------
(* JavaScript values: a type tag and a payload. For an object, an array or *)
(* a function the payload is its identity (a reference).                   *)

JS(k, s) == [kind |-> k, s |-> s]

Undefined == JS("undefined", "")
Null      == JS("null", "")
True      == JS("boolean", "true")
False     == JS("boolean", "false")
Zero      == JS("number", "0")
One       == JS("number", "1")
EmptyStr  == JS("string", "")
Str(s)    == JS("string", s)
ObjRef(r) == JS("object", r)
ArrRef(r) == JS("array", r)
Fn(f)     == JS("function", f)
ErrorObj(m) == JS("error", m)   \* new Error(m)

\* a key that a mapping does not have
Absent == JS("absent", "")

\* !!v
Truthy(v) ==
    CASE v.kind \in {"undefined", "null", "absent"} -> FALSE
      [] v.kind = "boolean" -> v.s = "true"
      [] v.kind = "number"  -> v.s \notin {"0", "NaN"}
      [] v.kind = "string"  -> v.s # ""
      [] OTHER -> TRUE

\* typeof v
TypeOf(v) ==
    CASE v.kind \in {"null", "array", "object", "error"} -> "object"
      [] v.kind = "absent" -> "undefined"
      [] OTHER -> v.kind

\* `${v}` for the values a name or a message can be
ToStr(v) ==
    CASE v.kind \in {"string", "number", "boolean"} -> v.s
      [] v.kind \in {"undefined", "absent"} -> "undefined"
      [] v.kind = "null" -> "null"
      [] v.kind = "error" -> "Error: " \o v.s
      [] v.kind = "array" -> ""
      [] OTHER -> "[object Object]"

---------------------------------------------------------------------------
(* Context mappings *)

\* the keys a context has in the model: the two the predicates read, and
\* the index key "0" that spreading a non-empty array or string copies
Keys == {"tier", "env", "0"}

\* the environment variables of the model
EnvVars == {"tier", "debug"}

NoKeys == [k \in Keys |-> Absent]
NoVars == [x \in EnvVars |-> Absent]

\* an argument of withContext / evaluate: the value and its own enumerable
\* properties
CtxArg(v, m) == [val |-> v, map |-> m]

\* a record argument
Rec(m) == CtxArg(ObjRef("arg"), m)

\* an argument without own enumerable properties
Plain(v) == CtxArg(v, NoKeys)

\* the variables of an object used as an env value
EnvOf(ref, penv) ==
    CASE ref = "process.env" -> penv
      [] ref = "envA" -> [NoVars EXCEPT !["debug"] = Str("false")]
      [] OTHER -> NoVars

\* { ...lo, ...hi } over mappings
Spread(lo, hi) == [k \in Keys |-> IF hi[k] # Absent THEN hi[k] ELSE lo[k]]

\* the own enumerable properties that ...arg copies: none for null and
\* undefined, the index keys for an array or a string
OwnProps(arg) ==
    IF arg.val.kind \in {"null", "undefined"} THEN NoKeys ELSE arg.map

---------------------------------------------------------------------------
(* Condition objects and the constructor's validation *)

\* an element of the conditions array: the value itself and, for an object
\* or an array, whether it has the properties check and name
Elem(v, hc, c, hn, n) ==
    [val |-> v, hasCheck |-> hc, check |-> c, hasName |-> hn, name |-> n]

\* { check: c, name: n }
Cond(c, n) == Elem(ObjRef("cond"), TRUE, c, TRUE, Str(n))

\* the conditions argument: a value, with its elements when it is an array
CondsArg(k, xs) == [kind |-> k, items |-> xs]

IndexStr(i) == ToString(i - 1)

\* the check property tested for truthiness in place of presence
ElemErrorTruthyCheck(c, i) ==
    IF ~Truthy(c.val) \/ TypeOf(c.val) # "object"
    THEN "Condition at index " \o IndexStr(i) \o " must be an object"
    ELSE IF ~(c.hasCheck /\ Truthy(c.check))
    THEN "Condition at index " \o IndexStr(i) \o " missing required property 'check'"
    ELSE IF ~c.hasName
    THEN "Condition at index " \o IndexStr(i) \o " missing required property 'name'"
    ELSE ""

\* lines 22-31 for the element at (1-based) position i: the message thrown, or ""
ElemError(c, i) ==
    IF ~Truthy(c.val) \/ TypeOf(c.val) # "object"
    THEN "Condition at index " \o IndexStr(i) \o " must be an object"
    ELSE IF ~c.hasCheck
    THEN "Condition at index " \o IndexStr(i) \o " missing required property 'check'"
    ELSE IF ~c.hasName
    THEN "Condition at index " \o IndexStr(i) \o " missing required property 'name'"
    ELSE ""

\* the for loop of lines 21-33 from position i on
RECURSIVE LoopError(_, _)
LoopError(xs, i) ==
    IF i > Len(xs) THEN ""
    ELSE IF ElemError(xs[i], i) # "" THEN ElemError(xs[i], i)
    ELSE LoopError(xs, i + 1)

\* conditions = [] when the argument is undefined (line 14)
CondsParam(a) == IF a.kind = "undefined" THEN CondsArg("array", <<>>) ELSE a

\* defaultValue = [] when the argument is undefined (line 14)
DefaultParam(d) == IF d = Undefined THEN ArrRef("emptyArr") ELSE d

\* lines 15-33: the message of the error construction throws, or ""
ValidationError(a) ==
    IF CondsParam(a).kind # "array" THEN "Conditions must be an array"
    ELSE LoopError(CondsParam(a).items, 1)

---------------------------------------------------------------------------
(* Predicates: the functions a check can be *)

\* what calling predicate f with ctx does: return a value or throw one
Invoke(f, ctx, penv) ==
    CASE f = "tierIsPremium" ->
            [threw |-> FALSE,
             val |-> IF ctx["tier"] = Str("premium") THEN True ELSE False]
      [] f = "envTierIsSet" ->
            [threw |-> FALSE,
             val |-> EnvOf(ctx["env"].s, penv)["tier"]]
      [] f = "throwsError"  -> [threw |-> TRUE, val |-> ErrorObj("Oops")]
      [] f = "throwsNull"   -> [threw |-> TRUE, val |-> Null]
      [] f = "setsTier"     -> [threw |-> FALSE, val |-> True]
      [] f = "resets"       -> [threw |-> FALSE, val |-> False]
      [] OTHER -> [threw |-> FALSE, val |-> Undefined]

\* The call that the predicate f makes on the evaluator it belongs to:
\* setsTier is () => { builder.withContext({ tier: 'premium' }); return true },
\* resets is () => { builder.resetContext(); return false }
Callback(f) ==
    CASE f = "setsTier" ->
            [op |-> "withContext",
             arg |-> Rec([NoKeys EXCEPT !["tier"] = Str("premium")])]
      [] f = "resets" -> [op |-> "resetContext", arg |-> Plain(Undefined)]
      [] OTHER -> [op |-> "none", arg |-> Plain(Undefined)]

---------------------------------------------------------------------------
(* withContext() and resetContext(), lines 45-59: the value of this._context *)

\* line 46: ctx && typeof ctx === 'object' && !Array.isArray(ctx)
IsRecord(v) == Truthy(v) /\ TypeOf(v) = "object" /\ v.kind # "array"

\* the accumulated context replaced by the argument
MergedReplacing(acc, a) == OwnProps(a)

\* line 47: { ...this._context, ...ctx }
Merged(acc, a) == Spread(acc, OwnProps(a))

\* an assignment that misses the _context property
ClearedNothing == _context

\* line 57: this._context = {}
Cleared == NoKeys

\* this._context after the call cb
Called(acc, cb) ==
    CASE cb.op = "withContext" ->
            IF IsRecord(cb.arg.val) THEN Merged(acc, cb.arg) ELSE acc
      [] cb.op = "resetContext" -> Cleared
      [] OTHER -> acc

\* this._context after the calls made by the predicates at the positions
\* calls of conds, in that order
RECURSIVE AfterCalls(_, _, _)
AfterCalls(acc, conds, calls) ==
    IF calls = <<>> THEN acc
    ELSE AfterCalls(Called(acc, Callback(conds[Head(calls)].check.s)),
                    conds, Tail(calls))

---------------------------------------------------------------------------
(* evaluate(), lines 66-100 *)

\* the accumulated context spread after the runtime context
EffectiveContextAccLast(acc, rt) ==
    Spread(Spread([NoKeys EXCEPT !["env"] = ObjRef("process.env")],
                  OwnProps(rt)), acc)

\* env: process.env written after the two spreads
EffectiveContextEnvLast(acc, rt) ==
    [Spread(acc, OwnProps(rt)) EXCEPT !["env"] = ObjRef("process.env")]

\* lines 68-72: { env: process.env, ...this._context, ...runtimeContext }
EffectiveContext(acc, rt) ==
    Spread(Spread([NoKeys EXCEPT !["env"] = ObjRef("process.env")], acc),
           OwnProps(rt))

\* the effective context assigned to this._context
AccumulatedAssigned(acc, ctx) == ctx

\* a this._context that evaluate() empties
AccumulatedConsumed(acc, ctx) == NoKeys

\* line 68: ctx is a local constant; evaluate() has no assignment to
\* this._context
AccumulatedAfter(acc, ctx) == acc

\* a context that follows the calls of the predicate of c
LiveContext(ctx, c) == Called(ctx, Callback(c.check.s))

\* lines 68 and 83: the ctx built before the loop is what every check(ctx)
\* receives, whatever the predicate of c did
SameContext(ctx, c) == ctx

\* an entry that carries the check in place of the name
MatchEntryOfCheck(c) == [first |-> True, second |-> c.check]

\* line 95: matches.push([true, condition.name])
MatchEntry(c) == [first |-> True, second |-> c.name]

\* a push at the front of the list
PushFront(matches, c) == <<MatchEntry(c)>> \o matches

Push(matches, c) == Append(matches, MatchEntry(c))

\* line 86: the template string of the new error
ErrorMessage(name, msg) ==
    "Error evaluating condition '" \o ToStr(name) \o "': " \o ToStr(msg)

\* error.message of the caught value e
MessageOf(e) == IF e.kind = "error" THEN Str(e.s) ELSE Undefined

\* a catch block that ends the loop and lets evaluate() return
CaughtSwallowed(c, e, matches, calls) ==
    [threw |-> FALSE, errType |-> "", message |-> "",
     matches |-> matches, calls |-> calls]

\* lines 84-88: the catch block for the condition c whose check threw e.
\* null and undefined have no properties: reading error.message throws a
\* TypeError that leaves evaluate in place of the new Error.
Caught(c, e, matches, calls) ==
    IF e.kind \in {"null", "undefined"}
    THEN [threw |-> TRUE, errType |-> "TypeError",
          message |-> "Cannot read properties of " \o ToStr(e)
                      \o " (reading 'message')",
          matches |-> matches, calls |-> calls]
    ELSE [threw |-> TRUE, errType |-> "Error",
          message |-> ErrorMessage(c.name, MessageOf(e)),
          matches |-> matches, calls |-> calls]

\* lines 77-97: the loop from position i on; calls lists the positions whose
\* predicate has been invoked
RECURSIVE EvalLoop(_, _, _, _, _, _)
EvalLoop(conds, ctx, penv, i, matches, calls) ==
    IF i > Len(conds)
    THEN [threw |-> FALSE, errType |-> "", message |-> "",
          matches |-> matches, calls |-> calls]
    ELSE LET c == conds[i] IN
         IF TypeOf(c.check) = "function"
         THEN LET r == Invoke(c.check.s, ctx, penv) IN
              IF r.threw
              THEN Caught(c, r.val, matches, Append(calls, i))
              ELSE EvalLoop(conds, SameContext(ctx, c), penv, i + 1,
                            IF Truthy(r.val) THEN Push(matches, c) ELSE matches,
                            Append(calls, i))
         ELSE EvalLoop(conds, ctx, penv, i + 1,
                       IF Truthy(c.check) THEN Push(matches, c) ELSE matches,
                       calls)

\* a default that is copied on the way out
ReturnValueCopied(matches, dflt) ==
    IF Len(matches) > 0 THEN ArrRef("matches")
    ELSE IF dflt.kind \in {"object", "array"} THEN JS(dflt.kind, "copy")
    ELSE dflt

\* line 99: matches.length > 0 ? matches : this.defaultValue
ReturnValue(matches, dflt) ==
    IF Len(matches) > 0 THEN ArrRef("matches") ELSE dflt

---------------------------------------------------------------------------
(* The record of the most recent call *)

NoArg == Plain(Undefined)

NoResult ==
    [op |-> "none", arg |-> NoArg, threw |-> FALSE, errType |-> "",
     message |-> "", value |-> Undefined, matches |-> <<>>, ctx |-> NoKeys,
     calls |-> <<>>]

---------------------------------------------------------------------------
(* Inputs *)

SeqsUpTo(S, n) == UNION {[1..k -> S] : k \in 0..n}

\* the condition objects of the evaluators that are used
CondPool ==
    { Cond(True, "a"), Cond(Zero, "b"),
      Cond(Fn("tierIsPremium"), "b"), Cond(Fn("envTierIsSet"), "c"),
      Cond(Fn("throwsError"), "a") }

DefaultArgs ==
    { Null, Str("fallback"), ObjRef("defaultObj"), ArrRef("fallbackArr") }

Inputs ==
    { [conditions |-> CondsArg("array", xs), defaultValue |-> d] :
        xs \in SeqsUpTo(CondPool, MaxConds), d \in DefaultArgs }

\* the records handed to withContext and evaluate
CtxRecords ==
    { Rec([NoKeys EXCEPT !["tier"] = Str("basic")]),
      Rec([NoKeys EXCEPT !["tier"] = Str("premium")]),
      Rec([NoKeys EXCEPT !["env"] = ObjRef("envA")]) }

WithContextArgs ==
    CtxRecords \cup
    { Plain(Undefined), Plain(Null),
      CtxArg(Str("invalid"), [NoKeys EXCEPT !["0"] = Str("i")]),
      CtxArg(ArrRef("argArr"), [NoKeys EXCEPT !["0"] = Str("x")]) }

EvaluateArgs == CtxRecords \cup { Plain(Undefined), Plain(Null) }

\* the elements of an array value
ArrayItems(v, matches) ==
    CASE v.s = "matches" -> matches
      [] v.s = "fallbackArr" ->
            << [first |-> Str("fallback"), second |-> Str("default-env")] >>
      [] OTHER -> <<>>

---------------------------------------------------------------------------
(* The operations *)

\* lines 14-38
createEnvironmentNameBuilder ==
    /\ built = "none"
    /\ IF ValidationError(args.conditions) # ""
       THEN /\ built' = "failed"
            /\ result' = [NoResult EXCEPT !.op = "construct", !.threw = TRUE,
                             !.errType = "Error",
                             !.message = ValidationError(args.conditions)]
            /\ UNCHANGED <<conditions, defaultValue, _context>>
       ELSE /\ built' = "ok"
            /\ conditions' = CondsParam(args.conditions).items
            /\ defaultValue' = DefaultParam(args.defaultValue)
            /\ _context' = NoKeys
            /\ result' = [NoResult EXCEPT !.op = "construct",
                             !.value = ObjRef("builder")]
    /\ UNCHANGED <<args, procEnv, self, parked>>

\* lines 45-50; ctx = {} when the argument is undefined
withContext(a) ==
    /\ built = "ok"
    /\ LET ctx == IF a.val = Undefined THEN Rec(NoKeys) ELSE a IN
       _context' = IF IsRecord(ctx.val) THEN Merged(_context, ctx) ELSE _context
    /\ result' = [NoResult EXCEPT !.op = "withContext", !.arg = a,
                     !.value = ObjRef("builder")]
    /\ UNCHANGED <<args, built, conditions, defaultValue, procEnv, self, parked>>

\* lines 56-59; the record keeps, as ctx, the context the call cleared
resetContext ==
    /\ built = "ok"
    /\ _context' = Cleared
    /\ result' = [NoResult EXCEPT !.op = "resetContext",
                     !.value = ObjRef("builder"), !.ctx = _context]
    /\ UNCHANGED <<args, built, conditions, defaultValue, procEnv, self, parked>>

\* lines 66-100; runtimeContext = {} when the argument is undefined. The
\* predicates run inside the call: what they did to this._context by calling
\* withContext or resetContext is in place when evaluate() ends.
evaluate(rt) ==
    /\ built = "ok"
    /\ LET runtimeContext == IF rt.val = Undefined THEN Rec(NoKeys) ELSE rt
           ctx == EffectiveContext(_context, runtimeContext)
           out == EvalLoop(conditions, ctx, procEnv, 1, <<>>, <<>>)
       IN /\ result' =
               [op |-> "evaluate", arg |-> rt, threw |-> out.threw,
                errType |-> out.errType, message |-> out.message,
                value |-> IF out.threw THEN Undefined
                          ELSE ReturnValue(out.matches, defaultValue),
                matches |-> out.matches, ctx |-> ctx, calls |-> out.calls]
          /\ _context' = AfterCalls(AccumulatedAfter(_context, ctx),
                                    conditions, out.calls)
    /\ UNCHANGED <<args, built, conditions, defaultValue, procEnv, self, parked>>

\* the evaluator's own context object handed out
ReturnedContextItself == ObjRef("_context")

\* line 107: the object literal { ... } is a new object
ReturnedContext == ObjRef("contextCopy")

\* lines 106-108: { ...this._context }
getContext ==
    /\ built = "ok"
    /\ result' = [NoResult EXCEPT !.op = "getContext",
                     !.value = ReturnedContext, !.ctx = _context]
    /\ UNCHANGED <<args, built, conditions, defaultValue, _context, procEnv,
                   self, parked>>

\* The caller sets (or, with v absent, deletes) the key k of the mapping that
\* the most recent getContext() returned; result.ctx holds that mapping. A
\* write to the evaluator's own context object shows in _context.
MutateReturned(k, v) ==
    /\ result.op \in {"getContext", "mutate"}
    /\ result.ctx[k] # v
    /\ result' = [result EXCEPT !.op = "mutate", !.ctx[k] = v]
    /\ _context' = IF result.value = ObjRef("_context")
                   THEN [_context EXCEPT ![k] = v]
                   ELSE _context
    /\ UNCHANGED <<args, built, conditions, defaultValue, procEnv, self, parked>>

\* one context shared by every evaluator of the module
OwnContextShared(own, current) == current

\* lines 35-38: _context is a property of the object that each
\* createEnvironmentNameBuilder call returns; own is the property of the
\* evaluator turned to, current that of the evaluator left
OwnContext(own, current) == own

\* The caller turns to the other of two evaluators built from the same
\* arguments: the methods called from here on have that evaluator as this.
Switch ==
    /\ self' = IF self = "first" THEN "second" ELSE "first"
    /\ built' = parked.built
    /\ _context' = OwnContext(parked._context, _context)
    /\ parked' = [built |-> built, _context |-> _context]
    /\ result' = [NoResult EXCEPT !.op = "switch"]
    /\ UNCHANGED <<args, conditions, defaultValue, procEnv>>

\* the process sets or deletes an environment variable
SetEnv(x, v) ==
    /\ procEnv' = [procEnv EXCEPT ![x] = v]
    /\ result' = [NoResult EXCEPT !.op = "env"]
    /\ UNCHANGED <<args, built, conditions, defaultValue, _context, self, parked>>

---------------------------------------------------------------------------
(* Specifications *)

Unbuilt ==
    /\ built = "none"
    /\ conditions = <<>>
    /\ defaultValue = Undefined
    /\ _context = NoKeys
    /\ procEnv = [NoVars EXCEPT !["tier"] = Str("env-tier"),
                                !["debug"] = Str("true")]
    /\ result = NoResult
    /\ self = "first"
    /\ parked = [built |-> "none", _context |-> NoKeys]

Init == args \in Inputs /\ Unbuilt

Next ==
    \/ createEnvironmentNameBuilder
    \/ \E a \in WithContextArgs : withContext(a)
    \/ resetContext
    \/ \E rt \in EvaluateArgs : evaluate(rt)
    \/ getContext
    \/ \E v \in {Absent, Str("env-tier")} : SetEnv("tier", v)

Spec == Init /\ [][Next]_vars

\* Any conditions argument, constructed and then evaluated without context
StaticChecks ==
    { False, True, Zero, One, EmptyStr, Str("yes"), Null, Undefined,
      ObjRef("emptyObj"), ArrRef("emptyArr") }

CtorElems ==
    { Cond(c, "a") : c \in StaticChecks \cup {Fn("tierIsPremium")} } \cup
    { Cond(Fn("throwsError"), "b"), Cond(Fn("throwsNull"), "c") } \cup
    { Elem(ObjRef("cond"), TRUE, True, FALSE, Undefined),
      Elem(ObjRef("cond"), FALSE, Undefined, TRUE, Str("a")),
      Elem(ObjRef("cond"), FALSE, Undefined, FALSE, Undefined),
      Elem(True, FALSE, Undefined, FALSE, Undefined),
      Elem(Str("x"), FALSE, Undefined, FALSE, Undefined),
      Elem(Null, FALSE, Undefined, FALSE, Undefined),
      Elem(ArrRef("emptyArr"), FALSE, Undefined, FALSE, Undefined),
      Elem(ArrRef("condArr"), TRUE, True, TRUE, Str("a")) }

CtorInputs ==
    { [conditions |-> a, defaultValue |-> Undefined] :
        a \in { CondsArg("array", xs) : xs \in SeqsUpTo(CtorElems, MaxConds) }
              \cup { CondsArg(k, <<>>) :
                        k \in {"undefined", "null", "object", "string"} } }

InitCtor == args \in CtorInputs /\ Unbuilt

NextCtor ==
    \/ createEnvironmentNameBuilder
    \/ evaluate(Plain(Undefined))

SpecCtor == InitCtor /\ [][NextCtor]_vars

\* The caller's side: a held getContext() result, a second evaluator
CallerInputs ==
    { [conditions |-> CondsArg("array", xs), defaultValue |-> Str("fallback")] :
        xs \in SeqsUpTo({Cond(True, "a"), Cond(Fn("tierIsPremium"), "b")},
                        MaxConds) }

CallerArgs ==
    { Rec([NoKeys EXCEPT !["tier"] = Str("basic")]),
      Rec([NoKeys EXCEPT !["tier"] = Str("premium")]),
      Plain(Null) }

InitCaller == args \in CallerInputs /\ Unbuilt

NextCaller ==
    \/ createEnvironmentNameBuilder
    \/ \E a \in CallerArgs : withContext(a)
    \/ resetContext
    \/ \E rt \in CallerArgs : evaluate(rt)
    \/ getContext
    \/ \E k \in {"tier", "env"}, v \in {Absent, Str("modified")} :
          MutateReturned(k, v)
    \/ Switch

SpecCaller == InitCaller /\ [][NextCaller]_vars

\* Predicates that raise and predicates that call the evaluator
PredPool ==
    { Cond(Fn("tierIsPremium"), "a"), Cond(Fn("setsTier"), "b"),
      Cond(Fn("resets"), "c"), Cond(Fn("throwsError"), "d"),
      Cond(Fn("throwsNull"), "e") }

PredInputs ==
    { [conditions |-> CondsArg("array", xs), defaultValue |-> Str("fallback")] :
        xs \in SeqsUpTo(PredPool, MaxConds) }

PredArgs ==
    { Rec([NoKeys EXCEPT !["tier"] = Str("basic")]),
      Rec([NoKeys EXCEPT !["tier"] = Str("premium")]),
      Rec([NoKeys EXCEPT !["env"] = ObjRef("envA")]),
      Plain(Undefined) }

InitPred == args \in PredInputs /\ Unbuilt

NextPred ==
    \/ createEnvironmentNameBuilder
    \/ \E a \in PredArgs : withContext(a)
    \/ resetContext
    \/ \E rt \in PredArgs : evaluate(rt)
    \/ getContext

SpecPred == InitPred /\ [][NextPred]_vars

---------------------------------------------------------------------------
(* Properties of evaluate() *)

\* the most recent call was an evaluate() that returned
Returned == result.op = "evaluate" /\ ~result.threw

\* the check of condition c, static or returned by its predicate under the
\* context of the most recent evaluate(), coerces to true
Holds(c) ==
    IF c.check.kind = "function"
    THEN /\ ~Invoke(c.check.s, result.ctx, procEnv).threw
         /\ Truthy(Invoke(c.check.s, result.ctx, procEnv).val)
    ELSE Truthy(c.check)

SomeHolds == \E i \in 1..Len(conditions) : Holds(conditions[i])

\* the [true, name] entries of the conditions that hold, in list order
ExpectedMatches ==
    LET sel == SelectSeq(conditions, Holds)
    IN  [j \in 1..Len(sel) |-> [first |-> True, second |-> sel[j].name]]

\* the elements of the value the most recent evaluate() returned
ReturnedItems == ArrayItems(result.value, result.matches)

\* C1: when at least one check coerces to true, an evaluate() that returns
\* returns an array holding exactly the [true, name] entries of the
\* conditions whose check coerces to true, in condition-list order, one per
\* matching condition, duplicates of a name included.
C1_MatchesInListOrder ==
    (Returned /\ SomeHolds) =>
        /\ result.value.kind = "array"
        /\ ReturnedItems = ExpectedMatches

\* two conditions of the same name both match: two entries
C1_Witness ==
    /\ Returned
    /\ Len(conditions) = 2
    /\ Len(ReturnedItems) = 2
    /\ ReturnedItems[1].second = ReturnedItems[2].second

\* C2 as stated: whatever evaluate() returns, when it is a sequence, is no
\* longer than the condition list and every entry's second element is the
\* name of a condition whose check coerced to true.
C2_AnyReturnBounded ==
    (Returned /\ result.value.kind = "array") =>
        /\ Len(ReturnedItems) <= Len(conditions)
        /\ \A j \in 1..Len(ReturnedItems) :
              \E i \in 1..Len(conditions) :
                  /\ Holds(conditions[i])
                  /\ conditions[i].name = ReturnedItems[j].second

\* C2 amended: when at least one check coerces to true, the value evaluate()
\* returns is no longer than the condition list and every entry's second
\* element is the name of a condition whose check coerced to true; when
\* none does, the value is the default value, whatever its length.
C2_MatchListBounded ==
    Returned =>
        IF SomeHolds
        THEN /\ Len(ReturnedItems) <= Len(conditions)
             /\ \A j \in 1..Len(ReturnedItems) :
                   \E i \in 1..Len(conditions) :
                       /\ Holds(conditions[i])
                       /\ conditions[i].name = ReturnedItems[j].second
        ELSE result.value = defaultValue

\* one of two conditions matches
C2_Witness ==
    /\ Returned
    /\ SomeHolds
    /\ Len(conditions) = 2
    /\ Len(ReturnedItems) = 1

\* C3: when no check coerces to true, an evaluate() that returns returns
\* the very value given as defaultValue at construction; when some check
\* coerces to true it returns another value.
C3_DefaultPassthrough ==
    (Returned /\ args.defaultValue # Undefined) =>
        IF SomeHolds
        THEN result.value # args.defaultValue
        ELSE result.value = args.defaultValue

\* a record given as default comes back from a non-empty list without match
C3_Witness ==
    /\ Returned
    /\ ~SomeHolds
    /\ Len(conditions) > 0
    /\ args.defaultValue = ObjRef("defaultObj")
    /\ result.value = ObjRef("defaultObj")

---------------------------------------------------------------------------
(* The context handed to the predicates *)

Evaluated == result.op = "evaluate"

\* the runtime context of the most recent evaluate() has key k
InRuntime(k) == result.arg.val.kind = "object" /\ result.arg.map[k] # Absent

InAccumulated(k) == _context[k] # Absent

\* environment variable x as the predicates read it, ctx.env[x]
SeenVar(x) == EnvOf(result.ctx["env"].s, procEnv)[x]

C5_EnvKeyShallow ==
    Evaluated =>
        IF InRuntime("env") \/ InAccumulated("env")
        THEN /\ result.ctx["env"] =
                    IF InRuntime("env") THEN result.arg.map["env"]
                    ELSE _context["env"]
             /\ result.ctx["env"] # ObjRef("process.env") =>
                    /\ SeenVar("tier") = Absent
                    /\ \A i \in 1..Len(conditions) :
                          conditions[i].check = Fn("envTierIsSet") =>
                              \A j \in 1..Len(result.matches) :
                                  result.matches[j].second # conditions[i].name
        ELSE /\ result.ctx["env"] = ObjRef("process.env")
             /\ \A x \in EnvVars : SeenVar(x) = procEnv[x]

\* the accumulated context replaces env while the process has tier set, and
\* a predicate reads ctx.env.tier
C5_Witness ==
    /\ Returned
    /\ InAccumulated("env") /\ ~InRuntime("env")
    /\ procEnv["tier"] # Absent
    /\ \E i \in 1..Len(conditions) : conditions[i].check = Fn("envTierIsSet")
    /\ SeenVar("tier") = Absent

---------------------------------------------------------------------------
(* A predicate that raises *)

\* the condition whose predicate raised in the most recent evaluate()
Failing == conditions[result.calls[Len(result.calls)]]

\* what that predicate raised
Raised == Invoke(Failing.check.s, result.ctx, procEnv).val

\* the texts that can stand for the message of a raised value
MessagesOf(e) == {e.s, ToStr(e), "undefined", ""}

\* C6: whenever a predicate raises, whatever it raises, evaluate() fails
\* with a new error whose message is "Error evaluating condition '<name>':
\* <underlying message>" for the failing condition's name.
C6_FailureIsWrapped ==
    (Evaluated /\ result.threw) =>
        /\ result.errType = "Error"
        /\ \E m \in MessagesOf(Raised) :
              result.message =
                  "Error evaluating condition '" \o Failing.name.s \o "': " \o m

---------------------------------------------------------------------------
(* Construction *)

Constructed == built # "none"

\* the elements of the conditions argument
Items == args.conditions.items

\* a record with both fields
WellFormed(c) == c.val.kind = "object" /\ c.hasCheck /\ c.hasName

\* C7: an element that is a boolean, a string, an array or null, behind
\* well-formed elements only, makes construction fail with "Condition at
\* index i must be an object", and no evaluator is produced.
C7_NonRecordRejected ==
    Constructed =>
        \A i \in 1..Len(Items) :
            ( /\ Items[i].val.kind \in {"boolean", "string", "array", "null"}
              /\ \A j \in 1..(i - 1) : WellFormed(Items[j]) )
            => /\ built = "failed"
               /\ result.message =
                     "Condition at index " \o ToString(i - 1)
                         \o " must be an object"

\* the first rule an element breaks, in the order object, check, name
BrokenRule(c) ==
    IF c.val.kind # "object" THEN " must be an object"
    ELSE IF ~c.hasCheck THEN " missing required property 'check'"
    ELSE IF ~c.hasName THEN " missing required property 'name'"
    ELSE ""

BadIndexes == {i \in 1..Len(Items) : BrokenRule(Items[i]) # ""}

FirstBad == CHOOSE i \in BadIndexes : \A j \in BadIndexes : i <= j

\* C8: a conditions argument that is no sequence fails with "Conditions
\* must be an array"; otherwise construction fails exactly when some element
\* breaks a rule, and the error names the lowest such index and the first
\* rule that element breaks; a failed construction produces no evaluator.
C8_FailFastInOrder ==
    Constructed =>
        IF args.conditions.kind \notin {"array", "undefined"}
        THEN built = "failed" /\ result.message = "Conditions must be an array"
        ELSE IF BadIndexes = {}
        THEN built = "ok"
        ELSE /\ built = "failed"
             /\ result.message =
                   "Condition at index " \o ToString(FirstBad - 1)
                       \o BrokenRule(Items[FirstBad])

\* the values that coerce to false
Falsy == {False, Zero, EmptyStr, Null, Undefined}

\* the check of c, coerced as a static value when it is not callable
CoercesTrue(c) ==
    IF c.check.kind = "function"
    THEN Truthy(Invoke(c.check.s, result.ctx, procEnv).val)
    ELSE c.check \notin Falsy

---------------------------------------------------------------------------
(* withContext *)

\* C10: withContext(ctx) returns the same evaluator without raising; for a
\* ctx that is a non-null record and no sequence, each key of ctx then has
\* ctx's value and every other key keeps its value; for a sequence, null,
\* undefined or a primitive the accumulated context is unchanged.
C10_WithContextMerges ==
    [][ result'.op = "withContext" =>
          LET a == result'.arg IN
            /\ a \in WithContextArgs
            /\ result'.value = ObjRef("builder")
            /\ ~result'.threw
            /\ IF a.val.kind = "object"
               THEN \A k \in Keys :
                      _context'[k] =
                          IF a.map[k] # Absent THEN a.map[k] ELSE _context[k]
               ELSE _context' = _context ]_vars

\* a later record overrode tier and the env key of an earlier call is kept
C10_Witness ==
    /\ result.op = "withContext"
    /\ result.arg.val.kind = "object"
    /\ result.arg.map["tier"] = Str("premium")
    /\ _context["tier"] = Str("premium")
    /\ _context["env"] = ObjRef("envA")

---------------------------------------------------------------------------
(* resetContext *)

\* C11: resetContext() returns the same evaluator and leaves the accumulated
\* context empty, the condition list and the default value as they were; a
\* getContext() right after it returns an empty mapping, and an evaluate()
\* right after it hands the predicates only the keys of its runtime context
\* and the env key.
C11_ResetClears ==
    [][ /\ result'.op = "resetContext" =>
              /\ result'.value = ObjRef("builder")
              /\ ~result'.threw
              /\ \A k \in Keys : _context'[k] = Absent
              /\ conditions' = conditions
              /\ defaultValue' = defaultValue
        /\ (result.op = "resetContext" /\ result'.op = "getContext") =>
              \A k \in Keys : result'.ctx[k] = Absent
        /\ (result.op = "resetContext" /\ result'.op = "evaluate") =>
              \A k \in Keys :
                  result'.ctx[k] =
                      IF result'.arg.val.kind = "object"
                            /\ result'.arg.map[k] # Absent
                      THEN result'.arg.map[k]
                      ELSE IF k = "env" THEN ObjRef("process.env")
                      ELSE Absent ]_vars

\* a reset that cleared two accumulated keys
C11_Witness ==
    /\ result.op = "resetContext"
    /\ result.ctx["tier"] = Str("premium")
    /\ result.ctx["env"] = ObjRef("envA")
    /\ _context = NoKeys

---------------------------------------------------------------------------
(* getContext *)

\* C12: getContext() returns a mapping equal to the accumulated context
\* (empty right after construction) that is not the evaluator's own object:
\* setting or deleting keys of the returned mapping leaves the accumulated
\* context as it was, so a later getContext() returns the unmodified context
\* and a later evaluate() hands the predicates none of the written values.
C12_GetContextCopies ==
    [][ /\ result'.op = "getContext" =>
              /\ result'.ctx = _context
              /\ _context' = _context
              /\ result.op = "construct" => result'.ctx = NoKeys
        /\ result'.op = "mutate" =>
              /\ result'.ctx # result.ctx
              /\ _context' = _context
              /\ conditions' = conditions
              /\ defaultValue' = defaultValue
        /\ (result.op = "mutate" /\ result'.op = "evaluate") =>
              \A k \in Keys :
                  result'.ctx[k] =
                      IF result'.arg.val.kind = "object"
                            /\ result'.arg.map[k] # Absent
                      THEN result'.arg.map[k]
                      ELSE IF _context[k] # Absent THEN _context[k]
                      ELSE IF k = "env" THEN ObjRef("process.env")
                      ELSE Absent ]_vars

\* a returned mapping with a replaced and an added key, the evaluator's
\* context still as it was
C12_Witness ==
    /\ result.op = "mutate"
    /\ result.ctx["tier"] = Str("modified")
    /\ result.ctx["env"] = Str("modified")
    /\ _context = [NoKeys EXCEPT !["tier"] = Str("premium")]

---------------------------------------------------------------------------
(* evaluate: repetition, failure, frame, predicates that call the evaluator *)

\* the predicates invoked by the most recent evaluate() that call
\* withContext or resetContext on the evaluator
Callbacks ==
    { i \in 1..Len(result.calls) :
        Callback(conditions[result.calls[i]].check.s).op # "none" }

\* C13: an evaluate(X) that directly follows an evaluate(X) with the same
\* runtime context, no withContext or resetContext call having been made
\* since the first one began, has the same outcome: the same match sequence,
\* the same returned value, or the same failure.
C13_EvaluateIdempotent ==
    [][ ( /\ result.op = "evaluate"
          /\ result'.op = "evaluate"
          /\ result'.arg = result.arg
          /\ Callbacks = {} )
        => /\ result'.threw = result.threw
           /\ result'.errType = result.errType
           /\ result'.message = result.message
           /\ result'.value = result.value
           /\ result'.matches = result.matches
           /\ result'.calls = result.calls ]_vars

\* an evaluate() whose match rests on the accumulated context, ready to be
\* repeated
C13_Witness ==
    /\ result.op = "evaluate"
    /\ result.arg = Plain(Undefined)
    /\ _context["tier"] = Str("premium")
    /\ Callbacks = {}
    /\ Len(result.matches) > 0

---------------------------------------------------------------------------
(* Two evaluators *)

\* C14: every construction starts with an empty accumulated context, and of
\* two evaluators built from the same condition list a call on one
\* (withContext, resetContext or any other) leaves the other's accumulated
\* context as it was: turning to the other evaluator, its getContext() and
\* evaluate() work on the context its own calls left.
C14_ContextPerEvaluator ==
    [][ /\ (result'.op = "construct" /\ ~result'.threw) =>
              _context' = NoKeys
        /\ self' = self => parked' = parked
        /\ self' # self =>
              /\ _context' = parked._context
              /\ parked'._context = _context
        /\ result'.op = "getContext" => result'.ctx = _context
        /\ result'.op = "evaluate" =>
              \A k \in Keys \ {"env"} :
                  result'.ctx[k] =
                      IF result'.arg.val.kind = "object"
                            /\ result'.arg.map[k] # Absent
                      THEN result'.arg.map[k]
                      ELSE _context[k] ]_vars

\* the second evaluator's getContext() after both evaluators accumulated a
\* tier of their own
C14_Witness ==
    /\ self = "second"
    /\ result.op = "getContext"
    /\ result.ctx["tier"] = Str("basic")
    /\ parked._context["tier"] = Str("premium")

\* the positions of the conditions whose predicate raises on the context of
\* the most recent evaluate()
Raising ==
    { i \in 1..Len(conditions) :
        /\ TypeOf(conditions[i].check) = "function"
        /\ Invoke(conditions[i].check.s, result.ctx, procEnv).threw }

FirstRaising == CHOOSE i \in Raising : \A j \in Raising : i <= j

\* the positions up to i that hold a predicate
PredicatesUpTo(i) ==
    { j \in 1..i : TypeOf(conditions[j].check) = "function" }

\* the predicates up to position i were invoked once each, in list order,
\* and no other
InvokedInOrderUpTo(i) ==
    /\ Len(result.calls) = Cardinality(PredicatesUpTo(i))
    /\ \A k \in 1..Len(result.calls) : result.calls[k] \in PredicatesUpTo(i)
    /\ \A k \in 1..(Len(result.calls) - 1) :
          result.calls[k] < result.calls[k + 1]

\* C15: when the predicate at position i is the first to raise, evaluate()
\* has invoked the predicates up to i once each in list order and none after
\* i, and the call fails with what the handling of condition i raised: it
\* returns neither the matches collected so far nor the default value. (The
\* message of that failure is the matter of C6.)
C15_AbortsAtFirstRaise ==
    (Evaluated /\ Raising # {}) =>
        /\ InvokedInOrderUpTo(FirstRaising)
        /\ result.calls[Len(result.calls)] = FirstRaising
        /\ result.threw
        /\ result.errType # ""
        /\ result.value = Undefined

\* a predicate matched, the next one raised: the match is held back
C15_Witness ==
    /\ Evaluated
    /\ Raising # {}
    /\ FirstRaising = 2
    /\ result.calls = <<1, 2>>
    /\ Len(result.matches) = 1
    /\ result.threw

LastCallback ==
    LET i == CHOOSE i \in Callbacks : \A j \in Callbacks : j <= i
    IN  Callback(conditions[result.calls[i]].check.s)

\* one of the predicates invoked called resetContext
SomeReset ==
    \E i \in Callbacks :
        Callback(conditions[result.calls[i]].check.s).op = "resetContext"

\* C17: the context of an evaluate() call is built from the accumulated
\* context as it is when the call starts and is the one context of every
\* predicate of the call: a predicate invoked after one that called
\* withContext or resetContext on the evaluator still decides on the context
\* built at the start. Those calls do change the accumulated context: after
\* the evaluate() it is what they left, and the getContext() or evaluate()
\* that follows works on it.
C17_ContextBuiltOnce ==
    [][ /\ result'.op = "evaluate" =>
              /\ \A k \in Keys :
                    result'.ctx[k] =
                        IF result'.arg.val.kind = "object"
                              /\ result'.arg.map[k] # Absent
                        THEN result'.arg.map[k]
                        ELSE IF _context[k] # Absent THEN _context[k]
                        ELSE IF k = "env" THEN ObjRef("process.env")
                        ELSE Absent
              /\ ~result'.threw => result'.matches = ExpectedMatches'
              /\ \A k \in Keys :
                    _context'[k] =
                        IF Callbacks' = {} THEN _context[k]
                        ELSE IF k = "tier" /\ LastCallback'.op = "withContext"
                        THEN Str("premium")
                        ELSE IF SomeReset' THEN Absent
                        ELSE _context[k]
        /\ (result.op = "evaluate" /\ Callbacks # {}
               /\ result'.op = "getContext") =>
              result'.ctx = _context ]_vars

\* the first predicate set the tier to premium on the evaluator; the second,
\* which tests the tier, was handed the context built before and did not
\* match
C17_Witness ==
    /\ result.op = "evaluate"
    /\ Len(conditions) = 2
    /\ conditions[1].check = Fn("setsTier")
    /\ conditions[2].check = Fn("tierIsPremium")
    /\ result.calls = <<1, 2>>
    /\ result.ctx["tier"] = Str("basic")
    /\ Len(result.matches) = 1
    /\ _context["tier"] = Str("premium")

====
